---- MODULE Spec2Model ----
(***************************************************************************)
(* The pass-build pipeline of applepassgenerator: the two ApplePass        *)
(* classes (apple_pass.py and models.py), their add_file and create        *)
(* operations, and the helpers create calls: _create_pass_json,            *)
(* _create_manifest, _create_signature_crypto and _create_zip.             *)
(*                                                                         *)
(* Representation.  Raw bytes are sequences of numbers 0..255.  The        *)
(* library conversions the pipeline chains (json.dumps, str.encode,        *)
(* hashlib.sha1(...).hexdigest) are kept as terms: the result names the    *)
(* conversion and what it was applied to, so two results are equal exactly *)
(* when the same conversion was applied to equal arguments.  That is what  *)
(* these conversions do: each is one-to-one (sha1 taken collision-free),   *)
(* and the UTF-16 encoding of a text, which starts with the byte order     *)
(* mark FF FE, is never the UTF-8 encoding of a text.  A dict is a         *)
(* sequence of [k, v] pairs in insertion order with unique keys.           *)
(***************************************************************************)
EXTENDS Integers, Sequences, FiniteSets, TLC

VARIABLES impl, doc, files, hashes, ret, builds, disk

vars == <<impl, doc, files, hashes, ret, builds, disk>>

(* The most create calls made on one session. *)
MaxBuilds == 2

----------------------------------------------------------------------------
(* Texts and byte strings. *)

(* A str given by the caller or written in the code. *)
Lit(s) == [tag |-> "str", v |-> s]

(* A bytes object given by the caller. *)
Raw(b) == [tag |-> "bytes", v |-> b]

(* str.encode("utf-8") *)
EncodeUtf8(t) == [tag |-> "utf-8", v |-> t]

(* str.encode("utf-16") *)
EncodeUtf16(t) == [tag |-> "utf-16", v |-> t]

(* hashlib.sha1(data).hexdigest(): a text *)
Sha1Hex(data) == [tag |-> "sha1.hexdigest", v |-> data]

----------------------------------------------------------------------------
(* JSON documents and json.dumps. *)

JStr(t) == [j |-> "str", v |-> t]
JInt(n) == [j |-> "int", v |-> n]
JBool(b) == [j |-> "bool", v |-> b]
JObj(pairs) == [j |-> "obj", v |-> pairs]
JArr(items) == [j |-> "arr", v |-> items]

(* json.dumps(x): the text of the document x, its keys in dict order. *)
json_dumps(x) == [tag |-> "json", v |-> x]

----------------------------------------------------------------------------
(* Python dicts: insertion-ordered, unique keys. *)

DictKeys(d) == {d[i].k : i \in 1..Len(d)}

DictIndex(d, k) == CHOOSE i \in 1..Len(d) : d[i].k = k

DictGet(d, k) == d[DictIndex(d, k)].v

(* d[k] = v: a present key keeps its place, a new key goes last. *)
DictSet(d, k, v) ==
    IF k \in DictKeys(d)
    THEN [d EXCEPT ![DictIndex(d, k)] = [k |-> k, v |-> v]]
    ELSE Append(d, [k |-> k, v |-> v])

----------------------------------------------------------------------------
(* Values of the object model. *)

None == [cls |-> "NoneType"]

(* An exception: its type, the stage of create that raised it and the     *)
(* attachment filename its message names ("none" when it names none).     *)
Err(type, stage, about) == [type |-> type, stage |-> stage, about |-> about]

NoErr == Err("none", "none", "none")

(* getattr: a Python object is a record of its attributes. *)
HasAttr(obj, a) == a \in DOMAIN obj

(* fields.Barcode: __init__ stores the four private attributes. *)
Barcode(message, format, alt_text) ==
    [cls |-> "Barcode", _format |-> format, _message |-> message,
     _message_encoding |-> "iso-8859-1", _alt_text |-> alt_text]

(* Barcode.json_dict *)
Barcode_json_dict(b) ==
    JObj(<<[k |-> "format", v |-> JStr(Lit(b._format))],
           [k |-> "message", v |-> JStr(Lit(b._message))],
           [k |-> "messageEncoding", v |-> JStr(Lit(b._message_encoding))]>>
         \o (IF b._alt_text # ""
             THEN <<[k |-> "altText", v |-> JStr(Lit(b._alt_text))]>>
             ELSE <<>>))

(* pass_information.Generic with no field added, and the plain dict that  *)
(* ApplePassGeneratorClient.get_pass hands to ApplePass.                   *)
Generic == [cls |-> "Generic", jsonname |-> "generic"]

CardInfo == [cls |-> "dict"]

(* PassInformation.json_dict: only non-empty field lists are rendered. *)
PassInformation_json_dict(p) == JObj(<<>>)

(* BarcodeFormat values kept by the legacy key "barcode". *)
original_formats ==
    {"PKBarcodeFormatPDF417", "PKBarcodeFormatQR", "PKBarcodeFormatAztec"}

(* The attribute json_dict reads to find the barcode's format. *)
FormatAttr(im) == IF im = "apple_pass" THEN "_format" ELSE "format"

(* ApplePass.json_dict up to the barcode: the required keys, the pass     *)
(* information and the barcode keys as an ordered dict, or the             *)
(* AttributeError of the first attribute that does not exist.              *)
json_dict_required(im, d) ==
    LET base ==
            <<[k |-> "description", v |-> JStr(Lit(d.description))],
              [k |-> "formatVersion", v |-> JInt(d.format_version)],
              [k |-> "organizationName", v |-> JStr(Lit(d.organization_name))],
              [k |-> "passTypeIdentifier", v |-> JStr(Lit(d.pass_type_identifier))],
              [k |-> "serialNumber", v |-> JStr(Lit(d.serial_number))],
              [k |-> "teamIdentifier", v |-> JStr(Lit(d.team_identifier))],
              [k |-> "suppressStripShine", v |-> JBool(d.suppress_strip_shine)]>>
        fail == [err |-> Err("AttributeError", "serialize", "none"), value |-> JObj(<<>>)]
    IN  IF ~HasAttr(d.pass_information, "jsonname") THEN fail
        ELSE
        LET d0 == Append(base, [k |-> d.pass_information.jsonname,
                                v |-> PassInformation_json_dict(d.pass_information)])
        IN  IF d.barcode = None THEN [err |-> NoErr, value |-> JObj(d0)]
            ELSE IF ~HasAttr(d.barcode, FormatAttr(im)) THEN fail
            ELSE IF d.barcode[FormatAttr(im)] \notin original_formats
                 THEN (* Barcode(message=self.barcode.message, ...): Barcode has  *)
                      (* no attribute message nor altText.                         *)
                      IF ~HasAttr(d.barcode, "message") \/ ~HasAttr(d.barcode, "altText")
                      THEN fail
                      ELSE [err |-> NoErr,
                            value |-> JObj(d0 \o
                              <<[k |-> "barcodes", v |-> JArr(<<Barcode_json_dict(d.barcode)>>)],
                                [k |-> "barcode",
                                 v |-> Barcode_json_dict(
                                         Barcode(d.barcode.message, "PKBarcodeFormatPDF417",
                                                 d.barcode.altText))]>>)]
                 ELSE [err |-> NoErr,
                       value |-> JObj(d0 \o
                         <<[k |-> "barcodes", v |-> JArr(<<Barcode_json_dict(d.barcode)>>)],
                           [k |-> "barcode", v |-> Barcode_json_dict(d.barcode)]>>)]

(* The values handed to IBeacon as major and minor: an int, a float       *)
(* (given in tenths, or infinite), a str (its characters) or None.         *)
IntArg(n) == [cls |-> "int", n |-> n, chars |-> <<>>, inf |-> FALSE]
FloatArg(tenths) == [cls |-> "float", n |-> tenths, chars |-> <<>>, inf |-> FALSE]
Infinity == [cls |-> "float", n |-> 0, chars |-> <<>>, inf |-> TRUE]
StrArg(chars) == [cls |-> "str", n |-> 0, chars |-> chars, inf |-> FALSE]
NoneArg == [cls |-> "NoneType", n |-> 0, chars |-> <<>>, inf |-> FALSE]

Digits == <<"0", "1", "2", "3", "4", "5", "6", "7", "8", "9">>

DigitValue(c) == (CHOOSE i \in 1..10 : Digits[i] = c) - 1

(* The number a non-empty sequence of decimal digits writes. *)
RECURSIVE Decimal(_)
Decimal(chars) ==
    IF Len(chars) = 0 THEN 0
    ELSE 10 * Decimal(SubSeq(chars, 1, Len(chars) - 1)) + DigitValue(chars[Len(chars)])

(* int(x): an int as it is, a float cut towards zero (OverflowError when  *)
(* infinite), a str of decimal digits parsed (ValueError otherwise),       *)
(* TypeError for None.                                                     *)
int(x) ==
    IF x.cls = "NoneType" THEN [err |-> "TypeError", v |-> 0]
    ELSE IF x.cls = "int" THEN [err |-> "none", v |-> x.n]
    ELSE IF x.cls = "float"
    THEN IF x.inf THEN [err |-> "OverflowError", v |-> 0]
         ELSE [err |-> "none",
               v |-> IF x.n >= 0 THEN x.n \div 10 ELSE -((-x.n) \div 10)]
    ELSE IF Len(x.chars) > 0
            /\ \A i \in 1..Len(x.chars) : \E j \in 1..10 : Digits[j] = x.chars[i]
    THEN [err |-> "none", v |-> Decimal(x.chars)]
    ELSE [err |-> "ValueError", v |-> 0]

(* The largest major and minor IBeacon accepts. *)
MaxMajorMinor == 65535

(* IBeacon.__init__ from the conversion of major (ma) and minor (mi) on:  *)
(* ValueError and TypeError of the conversions and a value out of range    *)
(* are raised as ValueError, any other exception as it is.                 *)
IBeacon_checked(uuid, ma, mi) ==
    IF ma.err # "none"
    THEN [err |-> Err(IF ma.err = "TypeError" THEN "ValueError" ELSE ma.err,
                      "IBeacon", "major"), value |-> None]
    ELSE IF mi.err # "none"
    THEN [err |-> Err(IF mi.err = "TypeError" THEN "ValueError" ELSE mi.err,
                      "IBeacon", "minor"), value |-> None]
    ELSE IF ~(0 <= ma.v /\ ma.v <= MaxMajorMinor /\ 0 <= mi.v /\ mi.v <= MaxMajorMinor)
    THEN [err |-> Err("ValueError", "IBeacon", "range"), value |-> None]
    ELSE [err |-> NoErr,
          value |-> [cls |-> "IBeacon", _proximity_uuid |-> uuid, _major |-> ma.v,
                     _minor |-> mi.v, _relevant_text |-> ""]]

(* IBeacon(proximity_uuid, major, minor): the UUID is a text that is a    *)
(* UUID or is not.                                                         *)
IBeacon(proximity_uuid, major, minor) ==
    IF ~proximity_uuid.valid
    THEN [err |-> Err("ValueError", "IBeacon", "proximity_uuid"), value |-> None]
    ELSE IBeacon_checked(proximity_uuid.text, int(major), int(minor))

(* IBeacon.json_dict *)
IBeacon_json_dict(b) ==
    JObj(<<[k |-> "proximityUUID", v |-> JStr(Lit(b._proximity_uuid))],
           [k |-> "major", v |-> JInt(b._major)],
           [k |-> "minor", v |-> JInt(b._minor)]>>
         \o (IF b._relevant_text # ""
             THEN <<[k |-> "relevantText", v |-> JStr(Lit(b._relevant_text))]>>
             ELSE <<>>))

(* pass_handler on the items of the list ibeacons: an IBeacon is rendered *)
(* by its json_dict, a value json.dumps knows is left as it is.            *)
pass_handler(obj) ==
    IF "cls" \in DOMAIN obj THEN IBeacon_json_dict(obj) ELSE obj

(* The list ibeacons as json.dumps renders it. *)
RenderList(l) ==
    IF l = None THEN None ELSE JArr([i \in 1..Len(l.v) |-> pass_handler(l.v[i])])

(* json.dumps of None. *)
JNull == [j |-> "null", v |-> None]

(* bool(v) of an attribute: None, False and the empty string are not true. *)
Truthy(v) ==
    IF v = None THEN FALSE
    ELSE IF v.j = "bool" THEN v.v
    ELSE IF v.j = "str" THEN v.v # Lit("")
    ELSE TRUE

(* The optional attributes of the pass that json_dict collects in         *)
(* optional_fields, with their keys, in the order of the dict.             *)
optional_fields(d) ==
    <<[k |-> "relevantDate", v |-> d.relevant_date],
      [k |-> "backgroundColor", v |-> d.background_color],
      [k |-> "foregroundColor", v |-> d.foreground_color],
      [k |-> "labelColor", v |-> d.label_color],
      [k |-> "logoText", v |-> d.logo_text],
      [k |-> "locations", v |-> d.locations],
      [k |-> "beacons", v |-> RenderList(d.ibeacons)],
      [k |-> "userInfo", v |-> d.user_info],
      [k |-> "associatedStoreIdentifiers", v |-> d.associated_store_identifiers],
      [k |-> "appLaunchURL", v |-> d.app_launch_url],
      [k |-> "expirationDate", v |-> d.expiration_date]>>

(* The end of json_dict: the optional fields that are not None, voided    *)
(* when true, and webServiceURL with authenticationToken (whatever it is)  *)
(* when web_service_url is true.                                           *)
json_dict_optional(d) ==
    SelectSeq(optional_fields(d), LAMBDA e : e.v # None)
    \o (IF Truthy(d.voided) THEN <<[k |-> "voided", v |-> JBool(TRUE)]>> ELSE <<>>)
    \o (IF Truthy(d.web_service_url)
        THEN <<[k |-> "webServiceURL", v |-> d.web_service_url],
               [k |-> "authenticationToken",
                v |-> IF d.authentication_token = None THEN JNull
                      ELSE d.authentication_token]>>
        ELSE <<>>)

(* json_dict from the barcode on: r is what the part before left. *)
json_dict_rest(d, r) ==
    IF r.err # NoErr THEN r
    ELSE [err |-> NoErr, value |-> JObj(r.value.v \o json_dict_optional(d))]

(* ApplePass.json_dict *)
json_dict(im, d) == json_dict_rest(d, json_dict_required(im, d))

(* _create_pass_json: json.dumps(self, default=pass_handler) *)
_create_pass_json(im, d) ==
    LET r == json_dict(im, d)
    IN  [err |-> r.err,
         text |-> IF r.err = NoErr THEN json_dumps(r.value) ELSE None,
         trace |-> <<"serialize">>]

----------------------------------------------------------------------------
(* Attachment content: a Python object of some type (kind) holding data;  *)
(* a reader-like object also has a position.                               *)

Obj(kind, data, pos) == [kind |-> kind, data |-> data, pos |-> pos]

(* file.read(): everything from the position to the end. *)
Read(c) == Raw(SubSeq(c.data.v, c.pos + 1, Len(c.data.v)))

(* add_file were it to drop the entry of the name and add a new one: the  *)
(* name moves to the end of _files.                                        *)
add_file_reinsert(fs, name, file_data) ==
    LET rest == SelectSeq(fs, LAMBDA e : e.k # name)
    IN  IF file_data.kind = "BytesIO"
        THEN Append(rest, [k |-> name, v |-> Obj("bytes", Read(file_data), 0)])
        ELSE Append(rest, [k |-> name, v |-> file_data])

(* add_file that forgets the attachments stored before.                    *)
add_file_only(fs, name, file_data) ==
    IF file_data.kind = "BytesIO"
    THEN DictSet(<<>>, name, Obj("bytes", Read(file_data), 0))
    ELSE DictSet(<<>>, name, file_data)

(* ApplePass.add_file on the dict _files: a BytesIO is read where it      *)
(* stands, anything else is stored as it is.                               *)
add_file(fs, name, file_data) ==
    IF file_data.kind = "BytesIO"
    THEN DictSet(fs, name, Obj("bytes", Read(file_data), 0))
    ELSE DictSet(fs, name, file_data)

(* apple_pass.py _create_manifest, the bytes of one attachment. *)
ManifestData(c, filename) ==
    IF c.kind \in {"bytes", "bytearray"}
    THEN [err |-> NoErr, data |-> c.data, obj |-> c]
    ELSE IF c.kind \in {"BytesIO", "BufferedReader"}
    THEN [err |-> NoErr, data |-> Read([c EXCEPT !.pos = 0]),
          obj |-> [c EXCEPT !.pos = Len(c.data.v)]]
    ELSE IF c.kind = "str"
    THEN [err |-> NoErr, data |-> EncodeUtf16(c.data), obj |-> c]
    ELSE [err |-> Err("TypeError", "digest", filename), data |-> None, obj |-> c]

(* models.py _create_manifest: hashlib.sha1(filedata) takes bytes-like    *)
(* objects only and names no file when it refuses one.                     *)
Sha1Data(c, filename) ==
    IF c.kind \in {"bytes", "bytearray"}
    THEN [err |-> NoErr, data |-> c.data, obj |-> c]
    ELSE [err |-> Err("TypeError", "digest", "none"), data |-> None, obj |-> c]

(* The bytes digested for the document. *)
PassJsonDigested(im, pass_json) ==
    IF im = "apple_pass" THEN EncodeUtf16(pass_json) ELSE EncodeUtf8(pass_json)

(* The loop of _create_manifest over _files.items(), from entry i on:     *)
(* _hashes is updated in place and keeps what was set before a failure.    *)
RECURSIVE HashFiles(_, _, _, _)
HashFiles(im, h, fs, i) ==
    IF i > Len(fs) THEN [err |-> NoErr, hashes |-> h, files |-> fs]
    ELSE LET r == IF im = "apple_pass" THEN ManifestData(fs[i].v, fs[i].k)
                  ELSE Sha1Data(fs[i].v, fs[i].k)
         IN  IF r.err # NoErr THEN [err |-> r.err, hashes |-> h, files |-> fs]
             ELSE HashFiles(im, DictSet(h, fs[i].k, Sha1Hex(r.data)),
                            [fs EXCEPT ![i].v = r.obj], i + 1)

(* json.dumps(self._hashes) *)
ManifestText(h) == json_dumps(JObj([i \in 1..Len(h) |-> [k |-> h[i].k, v |-> JStr(h[i].v)]]))

(* _create_manifest were it to leave out the digest of the document. *)
_create_manifest_files_only(im, h, fs, pass_json) ==
    LET r == HashFiles(im, h, fs, 1)
    IN  [err |-> r.err, hashes |-> r.hashes, files |-> r.files,
         text |-> IF r.err = NoErr THEN ManifestText(r.hashes) ELSE None,
         trace |-> <<"digest">>]

(* _create_manifest *)
_create_manifest(im, h, fs, pass_json) ==
    LET h0 == DictSet(h, "pass.json", Sha1Hex(PassJsonDigested(im, pass_json)))
        r == HashFiles(im, h0, fs, 1)
    IN  [err |-> r.err, hashes |-> r.hashes, files |-> r.files,
         text |-> IF r.err = NoErr THEN ManifestText(r.hashes) ELSE None,
         trace |-> <<"digest">>]

----------------------------------------------------------------------------
(* Signing material and _create_signature_crypto. *)

(* A PEM file: missing, malformed or valid. A key file also has the kind  *)
(* of key and the passphrase bytes it is encrypted under (None: none).     *)
KeyFile(state, kind, passphrase) ==
    [state |-> state, kind |-> kind, passphrase |-> passphrase]

(* password.encode(...) *)
PasswordBytes(im, password) ==
    IF password = None THEN None
    ELSE IF im = "apple_pass" THEN EncodeUtf16(password)
    ELSE EncodeUtf8(password)

(* serialization.load_pem_private_key *)
load_pem_private_key(key, password) ==
    IF key.state = "malformed" THEN "ValueError"
    ELSE IF key.passphrase = None /\ password # None THEN "TypeError"
    ELSE IF key.passphrase # None /\ password = None THEN "TypeError"
    ELSE IF key.passphrase # None /\ password # key.passphrase THEN "ValueError"
    ELSE "none"

(* The text-to-bytes step of set_data(manifest.encode(...)). *)
SignedPayload(im, manifest) ==
    IF im = "apple_pass" THEN EncodeUtf16(manifest) ELSE EncodeUtf8(manifest)

(* _create_signature_crypto: the three files are read and parsed in       *)
(* order, then the detached signature is built over the encoded manifest.  *)
_create_signature_crypto(im, manifest, mat) ==
    LET fail(type, stage, about, tr) ==
            [err |-> Err(type, stage, about), sig |-> None, trace |-> tr]
        t1 == <<"read:certificate">>
        t2 == t1 \o <<"load:certificate">>
        t3 == t2 \o <<"read:key">>
        t4 == t3 \o <<"load:key">>
        t5 == t4 \o <<"read:wwdr">>
        t6 == t5 \o <<"load:wwdr">>
        keyerr == load_pem_private_key(mat.key, PasswordBytes(im, mat.password))
    IN  IF mat.certificate = "missing"
        THEN fail("FileNotFoundError", "load:certificate", "certificate", t1)
        ELSE IF mat.certificate = "malformed"
        THEN fail("ValueError", "load:certificate", "none", t2)
        ELSE IF mat.key.state = "missing"
        THEN fail("FileNotFoundError", "load:key", "key", t3)
        ELSE IF keyerr # "none"
        THEN fail(keyerr, "load:key", "none", t4)
        ELSE IF mat.wwdr_certificate = "missing"
        THEN fail("FileNotFoundError", "load:wwdr", "wwdr_certificate", t5)
        ELSE IF mat.wwdr_certificate = "malformed"
        THEN fail("ValueError", "load:wwdr", "none", t6)
        ELSE IF mat.key.kind \notin {"rsa", "ec"}
        THEN fail("TypeError", "sign", "none", t6 \o <<"sign">>)
        ELSE [err |-> NoErr,
              sig |-> [cls |-> "pkcs7", over |-> SignedPayload(im, manifest),
                       signer |-> "certificate", md |-> "sha1",
                       certificates |-> <<"wwdr_certificate">>,
                       encoding |-> "DER", detached |-> TRUE],
              trace |-> t6 \o <<"sign">>]

----------------------------------------------------------------------------
(* The archive and _create_zip. *)

(* An archive member: its name and its bytes (for the member signature,   *)
(* the DER signature structure).                                           *)
Member(name, data) == [name |-> name, data |-> data]

(* A destination: whether it can be opened for writing, and how many      *)
(* members it has room for before a write fails.                           *)
Dest(open, room) == [open |-> open, room |-> room]

(* ZipFile.writestr: a str is encoded as UTF-8, bytes are written as they *)
(* are, anything else is refused.                                          *)
writestr(c) ==
    IF c.kind = "str" THEN [err |-> NoErr, data |-> EncodeUtf8(c.data)]
    ELSE IF c.kind \in {"bytes", "bytearray"} THEN [err |-> NoErr, data |-> c.data]
    ELSE [err |-> Err("TypeError", "assemble", "none"), data |-> None]

(* The bytes of one attachment were _create_zip to read a reader-like    *)
(* object without seek(0): from where _create_manifest left it.            *)
ZipData_no_seek(c, filename) ==
    IF c.kind \in {"bytes", "bytearray"}
    THEN [err |-> NoErr, data |-> c.data, obj |-> c]
    ELSE IF c.kind \in {"BytesIO", "BufferedReader"}
    THEN [err |-> NoErr, data |-> Read(c), obj |-> [c EXCEPT !.pos = Len(c.data.v)]]
    ELSE IF c.kind = "str"
    THEN [err |-> NoErr, data |-> EncodeUtf16(c.data), obj |-> c]
    ELSE [err |-> Err("TypeError", "assemble", filename), data |-> None, obj |-> c]

(* apple_pass.py _create_zip, the bytes of one attachment. *)
ZipData(c, filename) ==
    IF c.kind \in {"bytes", "bytearray"}
    THEN [err |-> NoErr, data |-> c.data, obj |-> c]
    ELSE IF c.kind \in {"BytesIO", "BufferedReader"}
    THEN [err |-> NoErr, data |-> Read([c EXCEPT !.pos = 0]),
          obj |-> [c EXCEPT !.pos = Len(c.data.v)]]
    ELSE IF c.kind = "str"
    THEN [err |-> NoErr, data |-> EncodeUtf16(c.data), obj |-> c]
    ELSE [err |-> Err("TypeError", "assemble", filename), data |-> None, obj |-> c]

(* The loop of _create_zip over _files.items(), from entry i on. *)
RECURSIVE WriteFiles(_, _, _, _, _)
WriteFiles(im, fs, i, archive, dst) ==
    IF i > Len(fs) THEN [err |-> NoErr, archive |-> archive, files |-> fs]
    ELSE LET conv == IF im = "apple_pass" THEN ZipData(fs[i].v, fs[i].k)
                     ELSE [err |-> NoErr, data |-> None, obj |-> fs[i].v]
             w == IF im = "apple_pass" THEN writestr(Obj("bytes", conv.data, 0))
                  ELSE writestr(fs[i].v)
         IN  IF conv.err # NoErr
             THEN [err |-> conv.err, archive |-> archive, files |-> fs]
             ELSE IF w.err # NoErr
             THEN [err |-> w.err, archive |-> archive, files |-> fs]
             ELSE IF Len(archive) >= dst.room
             THEN [err |-> Err("OSError", "assemble", "none"),
                   archive |-> archive, files |-> [fs EXCEPT ![i].v = conv.obj]]
             ELSE WriteFiles(im, [fs EXCEPT ![i].v = conv.obj], i + 1,
                             Append(archive, Member(fs[i].k, w.data)), dst)

(* _create_zip: signature, manifest.json and pass.json, then one member   *)
(* per entry of _files, then close. A failure leaves what was written.    *)
_create_zip(im, fs, pass_json, manifest, signature, dst) ==
    LET fixed == <<Member("signature", signature),
                   Member("manifest.json", writestr(Obj("str", manifest, 0)).data),
                   Member("pass.json", writestr(Obj("str", pass_json, 0)).data)>>
        fit == IF dst.room < 3 THEN dst.room ELSE 3
        r == WriteFiles(im, fs, 1, fixed, dst)
    IN  IF ~dst.open
        THEN [err |-> Err("OSError", "assemble", "none"), archive |-> <<>>,
              files |-> fs, closed |-> FALSE, trace |-> <<"open">>]
        ELSE IF dst.room < 3
        THEN [err |-> Err("OSError", "assemble", "none"),
              archive |-> SubSeq(fixed, 1, fit), files |-> fs, closed |-> FALSE,
              trace |-> <<"open", "write">>]
        ELSE [err |-> r.err, archive |-> r.archive, files |-> r.files,
              closed |-> (r.err = NoErr),
              trace |-> IF r.err = NoErr THEN <<"open", "write", "close">>
                        ELSE <<"open", "write">>]

----------------------------------------------------------------------------
(* create *)

(* What a call leaves behind: what it was called with (args: for add_file *)
(* the name, the data and whether the name was staged already, for create  *)
(* the certificate, the path and whether the call before it was a create   *)
(* that returned), how it                                                  *)
(* ended (returned or raised), the value returned, the exception raised   *)
(* and its __cause__, and what the call did on the way: the error of the  *)
(* stage that failed, the serialized document, the manifest text, the     *)
(* signature, the members written to the destination and whether it was   *)
(* closed, and the order of the steps taken.                               *)
Outcome(call, status, value, raised, cause, failed, pass_json, manifest, sig, archive, closed, trace) ==
    [call |-> call, args |-> None, status |-> status, value |-> value,
     raised |-> raised, cause |-> cause, failed |-> failed,
     pass_json |-> pass_json, manifest |-> manifest, sig |-> sig,
     archive |-> archive, closed |-> closed, trace |-> trace]

NoCall ==
    Outcome("none", "none", "None", "none", NoErr, NoErr, None, None, None, <<>>,
            FALSE, <<>>)

(* add_file returns None and raises nothing. *)
AddFileOutcome ==
    Outcome("add_file", "returned", "None", "none", NoErr, NoErr, None, None, None,
            <<>>, FALSE, <<>>)

(* What create returns: the path (apple_pass.py) or the buffer (models.py). *)
ReturnValue(im) == IF im = "apple_pass" THEN "pass_path" ELSE "zip_file"

(* What create leaves when the exception e of a stage is caught: it      *)
(* raises PassCreationError from e.                                        *)
Raised(e, pass_json, manifest, sig, archive, trace) ==
    Outcome("create", "raised", "None", "PassCreationError", e, e, pass_json,
            manifest, sig, archive, FALSE, trace)

(* The end of create were _create_zip called after the try: its          *)
(* exception reaches the caller as it is.                                  *)
AfterZip_outside_try(im, s1, s2, s3, s4) ==
    IF s4.err # NoErr
    THEN [hashes |-> s2.hashes, files |-> s4.files,
          ret |-> Outcome("create", "raised", "None", s4.err.type, NoErr, s4.err,
                          s1.text, s2.text, s3.sig, s4.archive, FALSE,
                          s1.trace \o s2.trace \o s3.trace \o s4.trace)]
    ELSE [hashes |-> s2.hashes, files |-> s4.files,
          ret |-> Outcome("create", "returned", ReturnValue(im), "none", NoErr, NoErr,
                          s1.text, s2.text, s3.sig, s4.archive, TRUE,
                          s1.trace \o s2.trace \o s3.trace \o s4.trace)]

(* create from the return of _create_zip (s4) on: the value is returned   *)
(* unless the stage raised. s1, s2, s3 are what the stages before it left. *)
AfterZip(im, s1, s2, s3, s4) ==
    IF s4.err # NoErr
    THEN [hashes |-> s2.hashes, files |-> s4.files,
          ret |-> Raised(s4.err, s1.text, s2.text, s3.sig, s4.archive,
                         s1.trace \o s2.trace \o s3.trace \o s4.trace)]
    ELSE [hashes |-> s2.hashes, files |-> s4.files,
          ret |-> Outcome("create", "returned", ReturnValue(im), "none", NoErr, NoErr,
                          s1.text, s2.text, s3.sig, s4.archive, TRUE,
                          s1.trace \o s2.trace \o s3.trace \o s4.trace)]

(* create from the return of _create_signature_crypto (s3) on. *)
AfterSignature(im, dst, s1, s2, s3) ==
    IF s3.err # NoErr
    THEN [hashes |-> s2.hashes, files |-> s2.files,
          ret |-> Raised(s3.err, s1.text, s2.text, None, <<>>,
                         s1.trace \o s2.trace \o s3.trace)]
    ELSE AfterZip(im, s1, s2, s3,
                  _create_zip(im, s2.files, s1.text, s2.text, s3.sig, dst))

(* create from the return of _create_manifest on were the destination    *)
(* opened before the signature is made.                                    *)
AfterManifest_open_first(im, mat, dst, s1, s2) ==
    LET s3 == _create_signature_crypto(im, s2.text, mat)
    IN  IF s2.err # NoErr
        THEN [hashes |-> s2.hashes, files |-> s2.files,
              ret |-> Raised(s2.err, s1.text, None, None, <<>>, s1.trace \o s2.trace)]
        ELSE IF s3.err # NoErr
        THEN [hashes |-> s2.hashes, files |-> s2.files,
              ret |-> Raised(s3.err, s1.text, s2.text, None, <<>>,
                             s1.trace \o s2.trace \o <<"open">> \o s3.trace)]
        ELSE AfterSignature(im, dst, s1, s2, s3)

(* create from the return of _create_manifest (s2) on: _hashes and the    *)
(* readers in _files keep what the stage did to them.                      *)
AfterManifest(im, mat, dst, s1, s2) ==
    IF s2.err # NoErr
    THEN [hashes |-> s2.hashes, files |-> s2.files,
          ret |-> Raised(s2.err, s1.text, None, None, <<>>, s1.trace \o s2.trace)]
    ELSE AfterSignature(im, dst, s1, s2, _create_signature_crypto(im, s2.text, mat))

(* create from the return of _create_pass_json on were the material       *)
(* loaded before the manifest is built: a load error ends the call with    *)
(* _hashes as they were.                                                   *)
AfterPassJson_material_first(im, h, fs, mat, dst, s1) ==
    LET load == _create_signature_crypto(im, s1.text, mat)
    IN  IF s1.err # NoErr
        THEN [hashes |-> h, files |-> fs,
              ret |-> Raised(s1.err, None, None, None, <<>>, s1.trace)]
        ELSE IF load.err # NoErr /\ load.err.stage # "sign"
        THEN [hashes |-> h, files |-> fs,
              ret |-> Raised(load.err, s1.text, None, None, <<>>,
                             s1.trace \o load.trace)]
        ELSE AfterManifest(im, mat, dst, s1, _create_manifest(im, h, fs, s1.text))

(* create from the return of _create_pass_json (s1) on. *)
AfterPassJson(im, h, fs, mat, dst, s1) ==
    IF s1.err # NoErr
    THEN [hashes |-> h, files |-> fs,
          ret |-> Raised(s1.err, None, None, None, <<>>, s1.trace)]
    ELSE AfterManifest(im, mat, dst, s1, _create_manifest(im, h, fs, s1.text))

(* create: the four stages inside one try; any exception of a stage is    *)
(* re-raised as PassCreationError from it. The session's _hashes and      *)
(* _files keep what the stages did to them.                                *)
create(im, d, h, fs, mat, dst) ==
    AfterPassJson(im, h, fs, mat, dst, _create_pass_json(im, d))

----------------------------------------------------------------------------
(* The sessions, their inputs and the specification. *)

Impls == {"apple_pass", "models"}

(* An ApplePass as constructed: the required arguments and the barcode. *)
Doc(pass_information, barcode) ==
    [pass_information |-> pass_information, barcode |-> barcode,
     description |-> "Gate 22", organization_name |-> "Org",
     pass_type_identifier |-> "pass.x", team_identifier |-> "T1",
     serial_number |-> "A1", format_version |-> 1,
     suppress_strip_shine |-> FALSE,
     background_color |-> None, foreground_color |-> None, label_color |-> None,
     logo_text |-> None, web_service_url |-> None, authentication_token |-> None,
     locations |-> None, ibeacons |-> None, relevant_date |-> None,
     associated_store_identifiers |-> None, app_launch_url |-> None,
     user_info |-> None, expiration_date |-> None, voided |-> None]

Docs ==
    {Doc(Generic, None),
     Doc(Generic, Barcode("A1", "PKBarcodeFormatQR", "")),
     Doc(Generic, Barcode("A1", "PKBarcodeFormatCode128", "A1")),
     Doc(CardInfo, None)}

(* Attachment filenames: two ordinary ones and the name of a fixed member. *)
Names == {"icon.png", "logo.png", "pass.json"}

(* What a caller hands to add_file. *)
FileData ==
    {Obj("bytes", Raw(<<1, 2>>), 0), Obj("bytearray", Raw(<<3>>), 0),
     Obj("BytesIO", Raw(<<9, 1, 2>>), 1), Obj("BufferedReader", Raw(<<5, 6>>), 2),
     Obj("str", Lit("text"), 0), Obj("int", None, 0)}

(* The add_file calls made: every kind of content under icon.png, bytes   *)
(* and text under logo.png, bytes under the name of the fixed member.      *)
AddFileCalls ==
    {[name |-> "icon.png", file_data |-> x] : x \in FileData}
    \cup {[name |-> "logo.png", file_data |-> x] :
             x \in {Obj("bytes", Raw(<<1, 2>>), 0), Obj("str", Lit("text"), 0)}}
    \cup {[name |-> "pass.json", file_data |-> Obj("bytes", Raw(<<1, 2>>), 0)]}

(* The material handed to create. *)
GoodMaterial ==
    [certificate |-> "valid", key |-> KeyFile("valid", "rsa", None),
     wwdr_certificate |-> "valid", password |-> None]

EncryptedKey == KeyFile("valid", "rsa", EncodeUtf8(Lit("pw")))

Materials ==
    {GoodMaterial,
     [GoodMaterial EXCEPT !.certificate = "missing"],
     [GoodMaterial EXCEPT !.certificate = "malformed"],
     [GoodMaterial EXCEPT !.key = KeyFile("missing", "rsa", None)],
     [GoodMaterial EXCEPT !.key = KeyFile("valid", "ed25519", None)],
     [GoodMaterial EXCEPT !.key = EncryptedKey],
     [GoodMaterial EXCEPT !.key = EncryptedKey, !.password = Lit("pw")],
     [GoodMaterial EXCEPT !.key = EncryptedKey, !.password = Lit("xx")],
     [GoodMaterial EXCEPT !.wwdr_certificate = "malformed"]}

(* The destinations handed to create: writable with room for everything,  *)
(* not writable, and out of room after the three fixed members.            *)
Dests ==
    {Dest(TRUE, Cardinality(Names) + 3), Dest(FALSE, Cardinality(Names) + 3),
     Dest(TRUE, 3)}

(* The create calls made: every material with a good destination, and    *)
(* good material with every destination.                                   *)
CreateCalls ==
    {[mat |-> m, dst |-> Dest(TRUE, Cardinality(Names) + 3), pass_path |-> "out.pkpass"] :
         m \in Materials}
    \cup {[mat |-> GoodMaterial, dst |-> d, pass_path |-> "out.pkpass"] : d \in Dests}

(* The default of create's pass_path (apple_pass.py): a file of the       *)
(* working directory, the same for every session. models.py makes a new    *)
(* BytesIO for each call that is given no zip_file.                        *)
DefaultPath == "pass.pkpass"

(* The file DefaultPath after a create of implementation im given         *)
(* pass_path that left outcome r, the file holding d before: opening the   *)
(* file for writing empties it, and it keeps the members written.          *)
Written(im, pass_path, r, d) ==
    IF im = "apple_pass" /\ pass_path = DefaultPath
          /\ \E i \in 1..Len(r.trace) : r.trace[i] = "write"
    THEN r.archive
    ELSE d

(* The sessions S, each an ApplePass of one of the two classes, with the  *)
(* default internal storage (field(default_factory=dict)).                 *)
InitSessions(S) ==
    /\ impl \in [S -> Impls]
    /\ doc \in [S -> Docs]
    /\ files = [s \in S |-> <<>>]
    /\ hashes = [s \in S |-> <<>>]
    /\ ret = [s \in S |-> NoCall]
    /\ builds = [s \in S |-> 0]
    /\ disk = <<>>

Init == InitSessions({1})

AddFileOf(s, calls) ==
    \E c \in calls :
        /\ files' = [files EXCEPT ![s] = add_file(files[s], c.name, c.file_data)]
        /\ ret' = [ret EXCEPT ![s] =
                      [AddFileOutcome EXCEPT
                          !.args = [name |-> c.name, file_data |-> c.file_data,
                                    replaces |-> c.name \in DictKeys(files[s])]]]
        /\ UNCHANGED <<impl, doc, hashes, builds, disk>>

AddFile(s) == AddFileOf(s, AddFileCalls)

CreateOf(s, calls) ==
    \E c \in calls :
        LET r == create(impl[s], doc[s], hashes[s], files[s], c.mat, c.dst)
        IN  /\ builds[s] < MaxBuilds
            /\ builds' = [builds EXCEPT ![s] = @ + 1]
            /\ files' = [files EXCEPT ![s] = r.files]
            /\ hashes' = [hashes EXCEPT ![s] = r.hashes]
            /\ ret' = [ret EXCEPT ![s] =
                          [r.ret EXCEPT
                              !.args = [certificate |-> c.mat.certificate,
                                        pass_path |-> c.pass_path,
                                        rerun |-> ret[s].call = "create"
                                                  /\ ret[s].status = "returned"]]]
            /\ disk' = Written(impl[s], c.pass_path, r.ret, disk)
            /\ UNCHANGED <<impl, doc>>

Create(s) == CreateOf(s, CreateCalls)

Next == \E s \in DOMAIN impl : AddFile(s) \/ Create(s)

Spec == Init /\ [][Next]_vars

----------------------------------------------------------------------------
(* Two sessions of one class side by side, each made with its default     *)
(* storage and built with the default arguments of create.                 *)

SessionAddFileCalls ==
    {[name |-> "icon.png", file_data |-> Obj("bytes", Raw(<<1, 2>>), 0)],
     [name |-> "icon.png", file_data |-> Obj("bytearray", Raw(<<3>>), 0)]}

SessionCreateCalls ==
    {[mat |-> GoodMaterial, dst |-> Dest(TRUE, Cardinality(Names) + 3),
      pass_path |-> DefaultPath]}

InitTwo ==
    /\ InitSessions({1, 2})
    /\ impl[1] = impl[2]
    /\ \A s \in {1, 2} : doc[s] = Doc(Generic, None)

AddFileTwo(s) == AddFileOf(s, SessionAddFileCalls)

CreateTwo(s) == CreateOf(s, SessionCreateCalls)

NextTwo == \E s \in DOMAIN impl : AddFileTwo(s) \/ CreateTwo(s)

SpecTwo == InitTwo /\ [][NextTwo]_vars

----------------------------------------------------------------------------
(* A pass whose optional attributes and barcode are set, then rendered.   *)

(* The most optional attributes a pass has set at a time. *)
MaxOptional == 2

(* The optional attributes with the keys they are rendered under. *)
OptionalKeys ==
    {[attr |-> "relevant_date", key |-> "relevantDate"],
     [attr |-> "background_color", key |-> "backgroundColor"],
     [attr |-> "foreground_color", key |-> "foregroundColor"],
     [attr |-> "label_color", key |-> "labelColor"],
     [attr |-> "logo_text", key |-> "logoText"],
     [attr |-> "locations", key |-> "locations"],
     [attr |-> "ibeacons", key |-> "beacons"],
     [attr |-> "user_info", key |-> "userInfo"],
     [attr |-> "associated_store_identifiers", key |-> "associatedStoreIdentifiers"],
     [attr |-> "app_launch_url", key |-> "appLaunchURL"],
     [attr |-> "expiration_date", key |-> "expirationDate"],
     [attr |-> "voided", key |-> "voided"],
     [attr |-> "web_service_url", key |-> "webServiceURL"],
     [attr |-> "authentication_token", key |-> "authenticationToken"]}

OptionalAttrs == {e.attr : e \in OptionalKeys}

(* The values an optional attribute is set to: a text, a list or a dict   *)
(* as its type has it, for voided both booleans, for web_service_url also  *)
(* the empty text, and None to unset it.                                   *)
OptionalValues(attr) ==
    IF attr = "voided" THEN {None, JBool(TRUE), JBool(FALSE)}
    ELSE IF attr = "web_service_url"
    THEN {None, JStr(Lit("https://example.com")), JStr(Lit(""))}
    ELSE IF attr \in {"locations", "ibeacons", "associated_store_identifiers"}
    THEN {None, JArr(<<>>)}
    ELSE IF attr = "user_info" THEN {None, JObj(<<>>)}
    ELSE {None, JStr(Lit("x"))}

(* The barcodes a pass is given: every format, with and without           *)
(* alternate text.                                                         *)
Barcodes ==
    {Barcode("A1", f, "A1") :
         f \in {"PKBarcodeFormatPDF417", "PKBarcodeFormatQR",
                "PKBarcodeFormatAztec", "PKBarcodeFormatCode128"}}
    \cup {Barcode("A1", "PKBarcodeFormatQR", "")}

(* An attribute of the pass was assigned. *)
SetAttrOutcome ==
    Outcome("setattr", "returned", "None", "none", NoErr, NoErr, None, None, None,
            <<>>, FALSE, <<>>)

(* What a call of _create_pass_json that left r leaves behind. *)
RenderOutcome(r) ==
    Outcome("_create_pass_json", IF r.err = NoErr THEN "returned" ELSE "raised",
            IF r.err = NoErr THEN "str" ELSE "None",
            IF r.err = NoErr THEN "none" ELSE r.err.type, NoErr, r.err, r.text,
            None, None, <<>>, FALSE, r.trace)

InitDoc ==
    /\ InitSessions({1})
    /\ doc[1] = Doc(Generic, None)

SetOptional(s) ==
    \E a \in OptionalAttrs :
        \E v \in OptionalValues(a) :
            /\ \/ doc[s][a] # None
               \/ Cardinality({b \in OptionalAttrs : doc[s][b] # None}) < MaxOptional
            /\ doc' = [doc EXCEPT ![s][a] = v]
            /\ ret' = [ret EXCEPT ![s] = SetAttrOutcome]
            /\ UNCHANGED <<impl, files, hashes, builds, disk>>

SetBarcode(s) ==
    \E b \in Barcodes \cup {None} :
        /\ doc' = [doc EXCEPT ![s].barcode = b]
        /\ ret' = [ret EXCEPT ![s] = SetAttrOutcome]
        /\ UNCHANGED <<impl, files, hashes, builds, disk>>

Render(s) ==
    /\ ret' = [ret EXCEPT ![s] = RenderOutcome(_create_pass_json(impl[s], doc[s]))]
    /\ UNCHANGED <<impl, doc, files, hashes, builds, disk>>

NextDoc == \E s \in DOMAIN impl : SetOptional(s) \/ SetBarcode(s) \/ Render(s)

SpecDoc == InitDoc /\ [][NextDoc]_vars

----------------------------------------------------------------------------
(* A pass given a beacon made with IBeacon, then rendered.                *)

(* What IBeacon is handed as proximity_uuid, major and minor. *)
Uuids ==
    {[text |-> "e2c56db5-dffb-48d2-b060-d0f5a71096e0", valid |-> TRUE],
     [text |-> "e2c56db5", valid |-> FALSE]}

MajorMinors ==
    {IntArg(-1), IntArg(0), IntArg(MaxMajorMinor), IntArg(MaxMajorMinor + 1),
     FloatArg(10 * MaxMajorMinor + 9), FloatArg(-5), Infinity,
     StrArg(<<"1", "2">>), StrArg(<<"a">>), NoneArg}

(* What a call of IBeacon that left r leaves behind. *)
BeaconOutcome(r) ==
    Outcome("IBeacon", IF r.err = NoErr THEN "returned" ELSE "raised",
            IF r.err = NoErr THEN "IBeacon" ELSE "None",
            IF r.err = NoErr THEN "none" ELSE r.err.type, NoErr, r.err, None, None,
            None, <<>>, FALSE, <<>>)

(* IBeacon is called and, when it returns, the beacon made is the one     *)
(* beacon of the pass.                                                     *)
NewBeacon(s) ==
    \E u \in Uuids, major \in MajorMinors, minor \in MajorMinors :
        LET r == IBeacon(u, major, minor)
        IN  /\ doc' = IF r.err = NoErr
                      THEN [doc EXCEPT ![s].ibeacons = JArr(<<r.value>>)]
                      ELSE doc
            /\ ret' = [ret EXCEPT ![s] =
                          [BeaconOutcome(r) EXCEPT
                              !.args = [proximity_uuid |-> u, major |-> major,
                                        minor |-> minor]]]
            /\ UNCHANGED <<impl, files, hashes, builds, disk>>

NextBeacon == \E s \in DOMAIN impl : NewBeacon(s) \/ Render(s)

SpecBeacon == InitDoc /\ [][NextBeacon]_vars

----------------------------------------------------------------------------
(* ApplePassGeneratorClient: a pass obtained from get_pass, then given    *)
(* files and built.                                                        *)

(* models.ApplePass(pass_information, pass_type_identifier=...,           *)
(* organization_name=..., team_identifier=...): every other field at its   *)
(* default.                                                                *)
ApplePass(pass_information, pass_type_identifier, organization_name, team_identifier) ==
    [Doc(pass_information, None) EXCEPT
        !.pass_type_identifier = pass_type_identifier,
        !.organization_name = organization_name,
        !.team_identifier = team_identifier,
        !.serial_number = "", !.description = ""]

(* ApplePassGeneratorClient.get_pass *)
get_pass(client, card_info) ==
    IF card_info.cls # "dict"
    THEN [err |-> Err("ValueError", "get_pass", "card_info"), value |-> None]
    ELSE [err |-> NoErr,
          value |-> ApplePass(card_info, client.pass_type_identifier,
                              client.organization_name, client.team_identifier)]

(* ApplePassGeneratorClient(team_identifier, pass_type_identifier,        *)
(* organization_name)                                                      *)
Clients ==
    {[team_identifier |-> "T1", pass_type_identifier |-> "pass.x",
      organization_name |-> "Org"],
     [team_identifier |-> "T2", pass_type_identifier |-> "pass.y",
      organization_name |-> "Org2"]}

(* What get_pass is handed: dicts (empty, with content, with a key        *)
(* jsonname) and values that are no dict.                                  *)
CardInfos ==
    {CardInfo,
     [cls |-> "dict", items |-> <<[k |-> "logo_text", v |-> "x"]>>],
     [cls |-> "dict", items |-> <<[k |-> "jsonname", v |-> "generic"]>>],
     [cls |-> "list", items |-> <<>>],
     None}

(* What a call of get_pass that left r leaves behind. *)
GetPassOutcome(r) ==
    Outcome("get_pass", IF r.err = NoErr THEN "returned" ELSE "raised",
            IF r.err = NoErr THEN "ApplePass" ELSE "None",
            IF r.err = NoErr THEN "none" ELSE r.err.type, NoErr, r.err, None, None,
            None, <<>>, FALSE, <<>>)

(* The create calls made on the pass: valid material and a certificate    *)
(* that is malformed, zip_file left to its default.                        *)
ClientCreateCalls ==
    {[mat |-> m, dst |-> Dest(TRUE, Cardinality(Names) + 3), pass_path |-> "none"] :
         m \in {GoodMaterial, [GoodMaterial EXCEPT !.certificate = "malformed"]}}

(* One client-side session that holds no pass yet. *)
InitClient ==
    /\ impl = [s \in {1} |-> "models"]
    /\ doc = [s \in {1} |-> None]
    /\ files = [s \in {1} |-> <<>>]
    /\ hashes = [s \in {1} |-> <<>>]
    /\ ret = [s \in {1} |-> NoCall]
    /\ builds = [s \in {1} |-> 0]
    /\ disk = <<>>

GetPass(s) ==
    \E client \in Clients, card_info \in CardInfos :
        LET r == get_pass(client, card_info)
        IN  /\ doc[s] = None
            /\ doc' = [doc EXCEPT ![s] = r.value]
            /\ ret' = [ret EXCEPT ![s] =
                          [GetPassOutcome(r) EXCEPT
                              !.args = [client |-> client, card_info |-> card_info]]]
            /\ UNCHANGED <<impl, files, hashes, builds, disk>>

ClientAddFile(s) == doc[s] # None /\ AddFileOf(s, SessionAddFileCalls)

ClientCreate(s) == doc[s] # None /\ CreateOf(s, ClientCreateCalls)

NextClient == \E s \in DOMAIN impl : GetPass(s) \/ ClientAddFile(s) \/ ClientCreate(s)

SpecClient == InitClient /\ [][NextClient]_vars

----------------------------------------------------------------------------
(* What the properties below speak of. *)

Sessions == DOMAIN impl

(* The last call on s was a create that returned. *)
Built(s) == ret[s].call = "create" /\ ret[s].status = "returned"

(* The last call on s was a create, returned or raised. *)
Created(s) == ret[s].call = "create"

(* The entries of the manifest text of the last create on s. *)
ManifestEntries(s) == ret[s].manifest.v.v

(* The digest the manifest of the last create on s records under name n. *)
ManifestDigest(s, n) == DictGet(ManifestEntries(s), n).v

(* The places in the archive of the last create on s of members named n. *)
MembersNamed(s, n) == {i \in 1..Len(ret[s].archive) : ret[s].archive[i].name = n}

(* The archive of a build holds the signature, the manifest and the       *)
(* document in its first three members and attachment i in member 3 + i.   *)
SignatureMember(s) == ret[s].archive[1]
ManifestMember(s) == ret[s].archive[2]
DocumentMember(s) == ret[s].archive[3]
AttachmentMember(s, i) == ret[s].archive[3 + i]

----------------------------------------------------------------------------
(* C1: after a create that returned, the digest the manifest records      *)
(* under "pass.json" is the digest of the bytes of the archive member      *)
(* pass.json that holds the document, in both implementations.             *)
C1_PassJsonDigestMatchesMember ==
    \A s \in Sessions :
        Built(s) => ManifestDigest(s, "pass.json") = Sha1Hex(DocumentMember(s).data)

(* C2: after a create that returned, the bytes the signature is over are  *)
(* the bytes of the archive member manifest.json.                          *)
C2_SignedPayloadIsManifestMember ==
    \A s \in Sessions :
        Built(s) => SignatureMember(s).data.over = ManifestMember(s).data

(* C3: after a create that returned, for every staged attachment, of any  *)
(* kind of content create accepts, the manifest entry of its name is the   *)
(* digest of the bytes written to its archive member.                      *)
C3_AttachmentDigestMatchesMember ==
    \A s \in Sessions :
        Built(s) =>
            \A i \in 1..Len(files[s]) :
                /\ AttachmentMember(s, i).name = files[s][i].k
                /\ ManifestDigest(s, files[s][i].k)
                       = Sha1Hex(AttachmentMember(s, i).data)

(* A build of apple_pass.py with a reader-like attachment that was not at *)
(* its start when staged, and a text attachment.                           *)
C3_Witness ==
    \E s \in Sessions :
        /\ Built(s) /\ impl[s] = "apple_pass"
        /\ \E i, j \in 1..Len(files[s]) :
               /\ files[s][i].v.kind = "BufferedReader"
               /\ AttachmentMember(s, i).data = files[s][i].v.data
               /\ files[s][j].v.kind = "str"

(* C4: the keys of the manifest of a create that returned are "pass.json" *)
(* and the filenames staged at that time, each once, whatever add_file and *)
(* create calls went before.                                               *)
C4_ManifestKeySet ==
    \A s \in Sessions :
        Built(s) =>
            /\ DictKeys(ManifestEntries(s)) = {"pass.json"} \cup DictKeys(files[s])
            /\ \A i, j \in 1..Len(ManifestEntries(s)) :
                   ManifestEntries(s)[i].k = ManifestEntries(s)[j].k => i = j

(* A second build of a session, after a file was staged since the build   *)
(* before, without the name of the fixed member among the files.           *)
C4_Witness ==
    \E s \in Sessions :
        /\ Built(s) /\ builds[s] = 2 /\ ~ret[s].args.rerun
        /\ DictKeys(files[s]) = {"icon.png", "logo.png"}
        /\ Len(hashes[s]) = 3

(* C5: the archive of a create that returned has one member signature,    *)
(* one manifest.json, one pass.json, one per staged filename (also when a  *)
(* staged filename is one of these three) and no other member.             *)
C5_ArchiveMembersExactlyOnce ==
    \A s \in Sessions :
        Built(s) =>
            LET want == {"signature", "manifest.json", "pass.json"}
                            \cup DictKeys(files[s])
            IN  /\ \A i \in 1..Len(ret[s].archive) : ret[s].archive[i].name \in want
                /\ \A n \in want : Cardinality(MembersNamed(s, n)) = 1

(* The content add_file is to keep for what it is handed: what a BytesIO  *)
(* holds from its position on, anything else as it is.                     *)
ContentOf(file_data) ==
    IF file_data.kind = "BytesIO" THEN Obj("bytes", Read(file_data), 0) ELSE file_data

(* The bytes of a staged content: bytes as they are, all that a reader    *)
(* holds, text encoded as the implementation encodes attachments.          *)
BytesOf(c) ==
    IF c.kind = "str" THEN EncodeUtf16(c.data) ELSE c.data

(* The step is a call on session s. *)
Called(s) == <<files[s], hashes[s], ret[s], builds[s]>>
                 # <<files'[s], hashes'[s], ret'[s], builds'[s]>>

(* The step is a create call on session s. *)
CreateCalled(s) == builds'[s] = builds[s] + 1

(* C6: an add_file under a name already staged raises nothing and leaves  *)
(* one entry of that name with the content of this call, and a create      *)
(* that follows and returns writes one archive member and one manifest     *)
(* entry of that name, both from that content.                             *)
C6_SameNameReplaces ==
    [][\A s \in Sessions :
          /\ (Called(s) /\ ret'[s].call = "add_file" /\ ret'[s].args.replaces) =>
                 LET n == ret'[s].args.name
                 IN  /\ ret'[s].status = "returned"
                     /\ Cardinality({i \in 1..Len(files'[s]) : files'[s][i].k = n}) = 1
                     /\ DictGet(files'[s], n) = ContentOf(ret'[s].args.file_data)
          /\ (ret[s].call = "add_file" /\ ret[s].args.replaces
                  /\ CreateCalled(s) /\ ret'[s].status = "returned") =>
                 LET n == ret[s].args.name
                     data == BytesOf(ContentOf(ret[s].args.file_data))
                     at == {i \in 1..Len(ret'[s].archive) : ret'[s].archive[i].name = n}
                     e == {i \in 1..Len(ret'[s].manifest.v.v) :
                               ret'[s].manifest.v.v[i].k = n}
                 IN  /\ Cardinality(at) = 1
                     /\ Cardinality(e) = 1
                     /\ \A i \in at :
                            ret'[s].archive[i].data = data
                     /\ \A i \in e :
                            ret'[s].manifest.v.v[i].v = JStr(Sha1Hex(data))
      ]_vars

(* What a session just made of implementation im with document d and      *)
(* files fs (no build before) produces for pass.json and manifest.json.    *)
FreshPassJson(im, d) == _create_pass_json(im, d).text
FreshManifest(im, d, fs) == _create_manifest(im, <<>>, fs, FreshPassJson(im, d)).text

(* C7: a create that returns produces the pass.json and manifest.json     *)
(* texts, key order included, that a session just made with the same       *)
(* document and the same files in the same order produces, and a create    *)
(* that returns right after one that returned produces the same two        *)
(* texts and the same two members again.                                   *)
C7_Deterministic ==
    [][\A s \in Sessions :
          (CreateCalled(s) /\ ret'[s].status = "returned") =>
              /\ ret'[s].pass_json = FreshPassJson(impl[s], doc[s])
              /\ ret'[s].manifest = FreshManifest(impl[s], doc[s], files'[s])
              /\ Built(s) =>
                     /\ ret'[s].pass_json = ret[s].pass_json
                     /\ ret'[s].manifest = ret[s].manifest
                     /\ ret'[s].archive[2] = ret[s].archive[2]
                     /\ ret'[s].archive[3] = ret[s].archive[3]
      ]_vars

(* A session with two files staged built twice, nothing staged in        *)
(* between.                                                                *)
C7_Witness ==
    \E s \in Sessions :
        /\ Built(s) /\ ret[s].args.rerun /\ builds[s] = 2
        /\ Len(files[s]) = 2
        /\ "pass.json" \notin DictKeys(files[s])

(* C8: a create in which a stage failed raised PassCreationError with the *)
(* error of that stage as its cause and returned nothing, and a create     *)
(* that returned had no stage fail.                                        *)
C8_FailureIsWrapped ==
    \A s \in Sessions :
        Created(s) =>
            /\ ret[s].failed # NoErr =>
                   /\ ret[s].status = "raised"
                   /\ ret[s].raised = "PassCreationError"
                   /\ ret[s].cause = ret[s].failed
                   /\ ret[s].value = "None"
            /\ ret[s].status = "returned" =>
                   /\ ret[s].failed = NoErr
                   /\ ret[s].raised = "none"
                   /\ ret[s].value = ReturnValue(impl[s])

(* A create that failed writing the archive, after the three fixed        *)
(* members were written.                                                   *)
C8_Witness ==
    \E s \in Sessions :
        /\ Created(s) /\ ret[s].failed.stage = "assemble"
        /\ Len(ret[s].archive) = 3 /\ Len(files[s]) > 0

(* The staged files whose content is not representable as bytes. *)
Unrepresentable(s) ==
    {i \in 1..Len(files[s]) : files[s][i].v.kind \notin
         {"bytes", "bytearray", "BytesIO", "BufferedReader", "str"}}

(* C9: a create of a session with a staged file whose content is not      *)
(* representable as bytes, the document serialized, raised from a          *)
(* TypeError of the manifest stage that names such a file, with no         *)
(* material read and no signing begun, in both implementations.            *)
C9_ContentTypeErrorNamesFile ==
    \A s \in Sessions :
        (Created(s) /\ ret[s].pass_json # None /\ Unrepresentable(s) # {}) =>
            /\ ret[s].status = "raised"
            /\ ret[s].failed.type = "TypeError"
            /\ ret[s].failed.stage = "digest"
            /\ \E i \in Unrepresentable(s) : ret[s].failed.about = files[s][i].k
            /\ ret[s].trace = <<"serialize", "digest">>

(* C10 as stated: a create handed a malformed certificate, unless the     *)
(* document or a file is refused first, raises from the load error with    *)
(* no manifest text and no signature produced, the session's digests as    *)
(* they were and nothing written to the destination.                       *)
C10_LoadErrorBeforeManifest ==
    [][\A s \in Sessions :
          (CreateCalled(s) /\ ret'[s].args.certificate = "malformed"
               /\ ret'[s].failed.stage \notin {"serialize", "digest"}) =>
              /\ ret'[s].status = "raised"
              /\ ret'[s].failed = Err("ValueError", "load:certificate", "none")
              /\ ret'[s].manifest = None
              /\ ret'[s].sig = None
              /\ hashes'[s] = hashes[s]
              /\ ret'[s].archive = <<>>
      ]_vars

(* C10: a create handed a malformed certificate raises PassCreationError, *)
(* produces no signature and writes nothing to the destination; unless     *)
(* the document or a file is refused first, its cause is the load error    *)
(* of the certificate, raised after the manifest text was produced from    *)
(* the session's digests, which that call computed again.                  *)
C10_LoadErrorAfterManifest ==
    [][\A s \in Sessions :
          (CreateCalled(s) /\ ret'[s].args.certificate = "malformed") =>
              /\ ret'[s].status = "raised"
              /\ ret'[s].raised = "PassCreationError"
              /\ ret'[s].sig = None
              /\ ret'[s].archive = <<>>
              /\ ~ret'[s].closed
              /\ ret'[s].failed.stage \notin {"serialize", "digest"} =>
                     /\ ret'[s].cause = Err("ValueError", "load:certificate", "none")
                     /\ ret'[s].manifest = ManifestText(hashes'[s])
                     /\ hashes'[s] = _create_manifest(impl[s], hashes[s], files[s],
                                                      ret'[s].pass_json).hashes
                     /\ DictKeys(hashes'[s]) = {"pass.json"} \cup DictKeys(files[s])
                     /\ ret'[s].trace = <<"serialize", "digest", "read:certificate",
                                           "load:certificate">>
      ]_vars

(* A create that failed loading a malformed certificate, with the digests *)
(* of the document and two staged files computed.                          *)
C10_Witness ==
    \E s \in Sessions :
        /\ Created(s) /\ ret[s].args.certificate = "malformed"
        /\ ret[s].failed.stage = "load:certificate"
        /\ ret[s].manifest # None
        /\ Len(hashes[s]) = 3 /\ builds[s] = 1

(* C11: when create raised, the destination holds no member written by    *)
(* that call: every failure comes before the first write.                  *)
C11_NothingWrittenWhenRaised ==
    \A s \in Sessions :
        (Created(s) /\ ret[s].status = "raised") => ret[s].archive = <<>>

(* The steps of a create in which nothing fails, and the stage a step    *)
(* belongs to.                                                             *)
FullTrace ==
    <<"serialize", "digest", "read:certificate", "load:certificate", "read:key",
      "load:key", "read:wwdr", "load:wwdr", "sign", "open", "write", "close">>

StageOf(e) ==
    IF e = "serialize" THEN "serialize"
    ELSE IF e = "digest" THEN "digest"
    ELSE IF e \in {"open", "write", "close"} THEN "assemble"
    ELSE "sign"

(* C12: the steps of a create are an initial part of serialize, digest,   *)
(* sign (the material read and loaded, then the signature made), assemble  *)
(* (open, write, close), each taken once and in this order; a stage is     *)
(* begun only with the output of the stage before it produced, and a       *)
(* create that returned took them all.                                     *)
C12_StagesInOrderOnce ==
    \A s \in Sessions :
        Created(s) =>
            LET tr == ret[s].trace
                began(stage) == \E i \in 1..Len(tr) : StageOf(tr[i]) = stage
            IN  /\ Len(tr) >= 1 /\ tr[1] = "serialize"
                /\ \A i \in 1..Len(tr) : tr[i] = FullTrace[i]
                /\ began("digest") => ret[s].pass_json # None
                /\ began("sign") => ret[s].manifest # None
                /\ began("assemble") => ret[s].sig # None
                /\ began("digest") <=> ret[s].failed.stage # "serialize"
                /\ began("sign") <=> ret[s].failed.stage \notin {"serialize", "digest"}
                /\ began("assemble") <=>
                       ret[s].failed.stage \in {"none", "assemble"}
                /\ ret[s].status = "returned" => tr = FullTrace

(* A create that returned with two files staged, and a digest map that a  *)
(* build before it had filled.                                             *)
C12_Witness ==
    \E s \in Sessions :
        /\ Built(s) /\ builds[s] = 2 /\ Len(files[s]) = 2
        /\ ret[s].trace = FullTrace

(* C13: after a create, returned or raised, the digest map holds only     *)
(* what that call computed from the document and the files staged at the   *)
(* call: the entries the manifest stage sets starting from an empty map,   *)
(* and none when the document could not be serialized.                     *)
C13_DigestsOfLatestBuildOnly ==
    [][\A s \in Sessions :
          CreateCalled(s) =>
              LET computed ==
                      IF ret'[s].pass_json = None THEN <<>>
                      ELSE _create_manifest(impl[s], <<>>, files[s],
                                            ret'[s].pass_json).hashes
              IN  {hashes'[s][i] : i \in 1..Len(hashes'[s])}
                      = {computed[i] : i \in 1..Len(computed)}
      ]_vars

(* The archive a session holds from its last call, a create that          *)
(* returned: what is now at the path it returned (apple_pass.py) or in     *)
(* the buffer it returned (models.py).                                     *)
ProducedArchive(s) ==
    IF ~Built(s) THEN <<>>
    ELSE IF impl[s] = "apple_pass" /\ ret[s].args.pass_path = DefaultPath THEN disk
    ELSE ret[s].archive

(* C14: a step of one session leaves the files, the digests and the       *)
(* archive produced by every other session as they were.                   *)
C14_SessionsShareNothing ==
    [][\A s, t \in Sessions :
          (s # t /\ Called(s)) =>
              /\ files'[t] = files[t]
              /\ hashes'[t] = hashes[t]
              /\ ProducedArchive(t)' = ProducedArchive(t)
      ]_vars

(* The last call on s rendered the document of s as it is now. *)
Rendered(s) == ret[s].call = "_create_pass_json"

(* The keys and values of the document rendered by the last call on s. *)
RenderedDict(s) == ret[s].pass_json.v.v

(* C15: in a rendered document every optional key that is there has its  *)
(* own attribute set (not None) and a value that is not null.              *)
C15_OptionalKeysOnlyWhenSet ==
    \A s \in Sessions :
        (Rendered(s) /\ ret[s].status = "returned") =>
            \A e \in OptionalKeys :
                e.key \in DictKeys(RenderedDict(s)) =>
                    /\ doc[s][e.attr] # None
                    /\ DictGet(RenderedDict(s), e.key).j # "null"

(* The barcode json_dict is to put under the legacy key for barcode b. *)
LegacyBarcode(b) ==
    IF b._format \in {"PKBarcodeFormatPDF417", "PKBarcodeFormatQR", "PKBarcodeFormatAztec"}
    THEN b
    ELSE Barcode(b._message, "PKBarcodeFormatPDF417", b._alt_text)

(* C18: rendering a pass with a barcode succeeds in both implementations  *)
(* and gives barcodes, a list of the barcode alone, and barcode, the       *)
(* barcode itself or for Code128 a PDF417 barcode of the same message and  *)
(* alternate text.                                                         *)
C18_BarcodeAndLegacyKey ==
    \A s \in Sessions :
        (Rendered(s) /\ doc[s].barcode # None) =>
            /\ ret[s].status = "returned"
            /\ "barcodes" \in DictKeys(RenderedDict(s))
            /\ "barcode" \in DictKeys(RenderedDict(s))
            /\ DictGet(RenderedDict(s), "barcodes")
                   = JArr(<<Barcode_json_dict(doc[s].barcode)>>)
            /\ DictGet(RenderedDict(s), "barcode")
                   = Barcode_json_dict(LegacyBarcode(doc[s].barcode))

(* C16: get_pass handed something that is no dict raised ValueError;      *)
(* handed a dict it returned a pass with the identifiers of the client     *)
(* whose pass information has the type discriminator, and a create on the  *)
(* pass with valid material returned.                                      *)
C16_GetPassReadyForGeneration ==
    \A s \in Sessions :
        /\ ret[s].call = "get_pass" =>
               IF ret[s].args.card_info.cls = "dict"
               THEN /\ ret[s].status = "returned"
                    /\ doc[s].team_identifier = ret[s].args.client.team_identifier
                    /\ doc[s].pass_type_identifier
                           = ret[s].args.client.pass_type_identifier
                    /\ doc[s].organization_name = ret[s].args.client.organization_name
                    /\ HasAttr(doc[s].pass_information, "jsonname")
               ELSE /\ ret[s].status = "raised"
                    /\ ret[s].raised = "ValueError"
                    /\ doc[s] = None
        /\ (Created(s) /\ ret[s].args.certificate = "valid") => Built(s)

(* The value is an integer in the range of major and minor. *)
IntegerInRange(x) == x.cls = "int" /\ 0 <= x.n /\ x.n <= MaxMajorMinor

(* C17: IBeacon called with a valid UUID returned exactly when major and  *)
(* minor were both integers in 0..65535 and raised ValueError otherwise,   *)
(* and the beacons of a rendered pass have major and minor in 0..65535.    *)
C17_BeaconMajorMinorRange ==
    \A s \in Sessions :
        /\ (ret[s].call = "IBeacon" /\ ret[s].args.proximity_uuid.valid) =>
               /\ ret[s].status = "returned" <=>
                      /\ IntegerInRange(ret[s].args.major)
                      /\ IntegerInRange(ret[s].args.minor)
               /\ ret[s].status # "returned" => ret[s].raised = "ValueError"
        /\ (Rendered(s) /\ ret[s].status = "returned"
                /\ "beacons" \in DictKeys(RenderedDict(s))) =>
               \A b \in {DictGet(RenderedDict(s), "beacons").v[i] :
                             i \in 1..Len(DictGet(RenderedDict(s), "beacons").v)} :
                   /\ DictGet(b.v, "major").v \in 0..MaxMajorMinor
                   /\ DictGet(b.v, "minor").v \in 0..MaxMajorMinor


(* The entries of a dict under the names other than name, in their order.  *)
OtherEntries(d, name) == SelectSeq(d, LAMBDA e : e.k # name)

====
